---------------------------- MODULE Spec2Model ----------------------------
(***************************************************************************)
(* A model of src/source/main.py: PhpMyAdminClient, a scraping client that *)
(* logs into phpMyAdmin through its HTML front end, fetches one table's    *)
(* rows from the rendered results page and prints them, and the script     *)
(* under `if __name__ == "__main__"` that drives it.                       *)
(*                                                                         *)
(* Python str values are sequences of one-character strings, so that       *)
(* endswith, +, `in` and strip are computed rather than assumed.           *)
(* An optional value (None or a value) is a sequence of length 0 or 1.     *)
(* A page is what BeautifulSoup(response.text, 'html.parser') yields, kept *)
(* to the parts the client queries.                                        *)
(***************************************************************************)
EXTENDS Integers, Sequences, FiniteSets, TLC

VARIABLES
    client,     \* Option: the PhpMyAdminClient object's fields
    given,      \* the arguments the constructor was called with
    args,       \* the arguments of the last operation
    session,    \* "none" | "open" | "closed": self.session
    closes,     \* how many times session.close() has run
    requests,   \* the HTTP requests the last operation put on the wire
    served,     \* what the server answered to each of them
    result,     \* the last operation and how it ended
    stdout,     \* what print() has written, in order
    trace,      \* the steps the __main__ script has taken, in order
    logins,     \* "never" | "failed" | "ok": the last authenticate(), if any
    late,       \* TRUE once a request was issued after session.close()
    posted,     \* the tokens sent in a login POST so far
    pc          \* position of the __main__ script ("api": not running it)

vars == <<client, given, args, session, closes, requests, served, result, stdout, trace,
          logins, late, posted, pc>>

(***************************************************************************)
(* Bounds of the model.                                                    *)
(***************************************************************************)
MaxUrlLen == 2     \* longest base_url given to the constructor
MaxInputs == 2     \* <input> elements on a login page
MaxCols == 2       \* <th> elements in thead
MaxRows == 2       \* <tr> elements in tbody
MaxCells == 2      \* <td> elements in a tr

\* timeout=10 of every request (lines 39, 55, 102)
TIMEOUT == 10

None == <<>>
Some(x) == <<x>>

(***************************************************************************)
(* String literals of the source.                                          *)
(***************************************************************************)
\* "index.php"  (the path appended to base_url, lines 53 and 100)
INDEX_PHP ==
    <<"i","n","d","e","x",".","p","h","p">>

\* "1"  (login_data['server'], line 48)
SERVER_ID ==
    <<"1">>

\* "/sql"  (params['route'], line 93)
ROUTE_SQL ==
    <<"/","s","q","l">>

\* "N/A"  (default of th.get('data-column', ...), line 136)
NOT_AVAILABLE ==
    <<"N","/","A">>

\* "Login failed. Check credentials."  (line 60)
MSG_LOGIN_FAILED ==
    <<"L","o","g","i","n"," ","f","a","i","l","e","d","."," ","C","h",
      "e","c","k"," ","c","r","e","d","e","n","t","i","a","l","s",".">>

\* "Could not find CSRF token on login page."  (line 73)
MSG_NO_TOKEN ==
    <<"C","o","u","l","d"," ","n","o","t"," ","f","i","n","d"," ","C",
      "S","R","F"," ","t","o","k","e","n"," ","o","n"," ","l","o","g",
      "i","n"," ","p","a","g","e",".">>

\* "Could not find table data for "  (line 111)
MSG_TABLE_PREFIX ==
    <<"C","o","u","l","d"," ","n","o","t"," ","f","i","n","d"," ","t",
      "a","b","l","e"," ","d","a","t","a"," ","f","o","r"," ">>

\* ". Check database/table names or permissions."  (lines 111-112)
MSG_TABLE_SUFFIX ==
    <<"."," ","C","h","e","c","k"," ","d","a","t","a","b","a","s","e",
      "/","t","a","b","l","e"," ","n","a","m","e","s"," ","o","r"," ",
      "p","e","r","m","i","s","s","i","o","n","s",".">>

\* "Connection error: "  (lines 65 and 121)
MSG_CONNECTION ==
    <<"C","o","n","n","e","c","t","i","o","n"," ","e","r","r","o","r",
      ":"," ">>

\* "Error: "  (line 200)
MSG_ERROR ==
    <<"E","r","r","o","r",":"," ">>

\* "http://185.244.219.162/phpmyadmin/"  (line 186)
phpmyadmin_url ==
    <<"h","t","t","p",":","/","/","1","8","5",".","2","4","4",".","2",
      "1","9",".","1","6","2","/","p","h","p","m","y","a","d","m","i",
      "n","/">>

\* "test"  (line 187)
main_username ==
    <<"t","e","s","t">>

\* "JHFBdsyf2eg8*"  (line 188)
main_password ==
    <<"J","H","F","B","d","s","y","f","2","e","g","8","*">>

\* "testDB"  (line 189)
main_database ==
    <<"t","e","s","t","D","B">>

\* "users"  (line 190)
main_table ==
    <<"u","s","e","r","s">>
(***************************************************************************)
(* Python str operations.                                                  *)
(***************************************************************************)
SLASH == <<"/">>
DOT == <<".">>

\* what str.strip() removes
Whitespace == {" ", "\t", "\n"}

\* s.endswith(suffix)
endswith(s, suffix) ==
    /\ Len(s) >= Len(suffix)
    /\ SubSeq(s, Len(s) - Len(suffix) + 1, Len(s)) = suffix

\* sub in s
Contains(s, sub) ==
    \E i \in 1..(Len(s) - Len(sub) + 1) : SubSeq(s, i, i + Len(sub) - 1) = sub

RECURSIVE lstrip(_)
lstrip(s) ==
    IF s = <<>> THEN s
    ELSE IF Head(s) \in Whitespace THEN lstrip(Tail(s)) ELSE s

RECURSIVE rstrip(_)
rstrip(s) ==
    IF s = <<>> THEN s
    ELSE IF s[Len(s)] \in Whitespace THEN rstrip(SubSeq(s, 1, Len(s) - 1)) ELSE s

\* s.strip()
strip(s) == rstrip(lstrip(s))

\* ''.join(parts)
RECURSIVE join(_)
join(parts) == IF parts = <<>> THEN <<>> ELSE Head(parts) \o join(Tail(parts))

\* the elements of a sequence
Range(xs) == {xs[i] : i \in 1..Len(xs)}

\* str(n) for a natural number
Digit(d) == <<"0","1","2","3","4","5","6","7","8","9">>[d + 1]
RECURSIVE str(_)
str(n) == IF n < 10 THEN <<Digit(n)>> ELSE str(n \div 10) \o <<Digit(n % 10)>>

\* every sequence over S of length at most n
SeqsUpTo(S, n) == UNION {[1..k -> S] : k \in 0..n}

(***************************************************************************)
(* How a call ends: it returns a value or raises an exception.  An         *)
(* exception has a class (kind), its message, and the exception it was     *)
(* raised `from` (cause).                                                  *)
(***************************************************************************)
Return(v) == [kind |-> "return", value |-> Some(v), message |-> <<>>, cause |-> None]
Raise(kind, message, cause) ==
    [kind |-> kind, value |-> None, message |-> message, cause |-> cause]

\* class AuthenticationError(Exception), class TableDataError(Exception)
AuthenticationError(message) == Raise("AuthenticationError", message, None)
TableDataError(message) == Raise("TableDataError", message, None)
\* the builtin ConnectionError, raised `from e`
ConnectionError(message, e) == Raise("ConnectionError", message, Some(e))
\* None.find_all(...): 'NoneType' object has no attribute 'find_all'
AttributeError == Raise("AttributeError", <<>>, None)

(***************************************************************************)
(* requests: what session.get / session.post give back.  Either the call   *)
(* raises a requests.exceptions.RequestException (ok = FALSE), or it       *)
(* returns a response with a status code, a reason phrase and a body.      *)
(***************************************************************************)
NoPage == [login_form |-> FALSE, inputs |-> <<>>, table |-> None]
NoException == [type |-> "", text |-> <<>>]

Response(status, reason, body) ==
    [ok |-> TRUE, status |-> status, reason |-> reason, body |-> body,
     exc |-> NoException]
Failure(type, text) ==
    [ok |-> FALSE, status |-> 0, reason |-> <<>>, body |-> NoPage,
     exc |-> [type |-> type, text |-> text]]

\* the subclasses of requests.exceptions.RequestException
RequestException ==
    {"Timeout", "requests.ConnectionError", "TooManyRedirects", "HTTPError",
     "MissingSchema", "InvalidURL"}

\* "http://"
HTTP == <<"h","t","t","p",":","/","/">>

\* requests sends a request only to a URL with a scheme and a host; for any
\* other it raises MissingSchema or InvalidURL before anything is sent
no_scheme(url) == Len(url) < Len(HTTP) \/ SubSeq(url, 1, Len(HTTP)) # HTTP
no_host(url) == Len(url) = Len(HTTP) \/ url[Len(HTTP) + 1] = "/"
invalid_url(url) ==
    IF no_scheme(url)
    THEN Failure("MissingSchema", <<"N","o"," ","s","c","h","e","m","e">>)
    ELSE Failure("InvalidURL", <<"N","o"," ","h","o","s","t">>)

\* " Client Error: " and " Server Error: " of requests' HTTPError message
CLIENT_ERROR == <<" ","C","l","i","e","n","t"," ","E","r","r","o","r",":"," ">>
SERVER_ERROR == <<" ","S","e","r","v","e","r"," ","E","r","r","o","r",":"," ">>

\* Response.raise_for_status(): HTTPError for a 4xx or a 5xx status, nothing
\* for any other status (the message's " for url: ..." tail is left out)
raise_for_status(response) ==
    IF 400 <= response.status /\ response.status < 500
    THEN Some([type |-> "HTTPError",
               text |-> str(response.status) \o CLIENT_ERROR \o response.reason])
    ELSE IF 500 <= response.status /\ response.status < 600
    THEN Some([type |-> "HTTPError",
               text |-> str(response.status) \o SERVER_ERROR \o response.reason])
    ELSE None

(***************************************************************************)
(* class PhpMyAdminClient                                                  *)
(***************************************************************************)

\* a variant of __init__ that stores base_url as given
PhpMyAdminClient_as_given(base_url, username, password) ==
    [base_url |-> base_url, username |-> username, password |-> password]

\* __init__: the object's fields after construction
PhpMyAdminClient(base_url, username, password) ==
    [base_url |-> IF ~endswith(base_url, SLASH) THEN base_url \o SLASH
                  ELSE base_url,
     username |-> username,
     password |-> password]

\* a request as handed to self.session
Request(method, url, data, params) ==
    [method |-> method, url |-> url, data |-> data, params |-> params,
     timeout |-> TIMEOUT]

\* what an operation did: the requests it issued, the answers it got, how it ended
Ran(reqs, answers, outcome) ==
    [requests |-> reqs, served |-> answers, outcome |-> outcome]

\* soup.find('input', {'name': 'token'}): the first match, or None
find_token_input(soup) ==
    LET found == SelectSeq(soup.inputs, LAMBDA i : i.name = "token")
    IN IF found = <<>> THEN None ELSE Some(Head(found))

\* a variant of _extract_csrf_token that raises nothing and gives '' when it
\* finds no value
_extract_csrf_token_unchecked(soup) ==
    LET token_element == find_token_input(soup)
    IN IF token_element = None \/ token_element[1].value = None
       THEN Return(<<>>)
       ELSE Return(token_element[1].value[1])

\* _extract_csrf_token
_extract_csrf_token(soup) ==
    LET token_element == find_token_input(soup)
    IN IF token_element = None \/ token_element[1].value = None
       THEN AuthenticationError(MSG_NO_TOKEN)
       ELSE Return(token_element[1].value[1])

\* a variant of login_data that sends again a token already sent, if any
login_data_reusing_token(self, token) ==
    [pma_username |-> self.username,
     pma_password |-> self.password,
     server |-> SERVER_ID,
     token |-> IF posted = {} THEN token ELSE CHOOSE t \in posted : TRUE]

\* login_data of authenticate
login_data(self, token) ==
    [pma_username |-> self.username,
     pma_password |-> self.password,
     server |-> SERVER_ID,
     token |-> token]

\* a variant of the except clause that lets the exception through as it is
except_nothing(e) == Raise(e.type, e.text, None)

\* the except clause of authenticate and of get_table_data
except_RequestException(e) == ConnectionError(MSG_CONNECTION \o e.text, e)

\* a variant of the POST of authenticate that returns False, instead of
\* raising, when the login form comes back
authenticate_post_returning_False(self, get_request, get_answer, token, post_answer) ==
    LET post_request == Request("POST", self.base_url \o INDEX_PHP,
                                Some(login_data(self, token)), None)
        reqs == <<get_request, post_request>>
        answers == <<get_answer, post_answer>>
    IN IF ~post_answer.ok
       THEN Ran(reqs, answers, except_RequestException(post_answer.exc))
       ELSE IF raise_for_status(post_answer) # None
       THEN Ran(reqs, answers,
                except_RequestException(raise_for_status(post_answer)[1]))
       ELSE Ran(reqs, answers, Return(~post_answer.body.login_form))

\* the POST of authenticate and what follows it
authenticate_post(self, get_request, get_answer, token, post_answer) ==
    LET post_request == Request("POST", self.base_url \o INDEX_PHP,
                                Some(login_data(self, token)), None)
        reqs == <<get_request, post_request>>
        answers == <<get_answer, post_answer>>
    IN IF ~post_answer.ok
       THEN Ran(reqs, answers, except_RequestException(post_answer.exc))
       ELSE IF raise_for_status(post_answer) # None
       THEN Ran(reqs, answers,
                except_RequestException(raise_for_status(post_answer)[1]))
       ELSE IF post_answer.body.login_form
       THEN Ran(reqs, answers, AuthenticationError(MSG_LOGIN_FAILED))
       ELSE Ran(reqs, answers, Return(TRUE))

\* authenticate: get_answer and post_answer are what the server gives to the
\* GET and, if it is issued, to the POST
authenticate(self, get_answer, post_answer) ==
    LET get_request == Request("GET", self.base_url, None, None)
        token == _extract_csrf_token(get_answer.body)
    IN IF ~get_answer.ok
       THEN Ran(<<get_request>>, <<get_answer>>,
                except_RequestException(get_answer.exc))
       ELSE IF raise_for_status(get_answer) # None
       THEN Ran(<<get_request>>, <<get_answer>>,
                except_RequestException(raise_for_status(get_answer)[1]))
       ELSE IF token.kind # "return"
       THEN Ran(<<get_request>>, <<get_answer>>, token)
       ELSE authenticate_post(self, get_request, get_answer, token.value[1],
                              post_answer)

\* _extract_headers, given table.find('thead')
\* th.get('data-column', 'N/A')
header_of(th) == IF th.data_column = None THEN NOT_AVAILABLE ELSE th.data_column[1]

_extract_headers(table) ==
    IF table.thead = None THEN AttributeError
    ELSE LET ths == SelectSeq(table.thead[1], LAMBDA th : th.column_heading)
         IN Return([i \in 1..Len(ths) |-> header_of(ths[i])])

\* a variant of get_text that strips nothing: td.get_text()
get_text_unstripped(td) == join(td.strings)

\* td.get_text(strip=True): every string of the cell stripped, the empty ones
\* skipped, the rest joined
get_text_strip(td) ==
    LET stripped == [i \in 1..Len(td.strings) |-> strip(td.strings[i])]
    IN join(SelectSeq(stripped, LAMBDA s : s # <<>>))

\* row of _extract_table_data
row_of(tr) ==
    LET tds == SelectSeq(tr, LAMBDA td : td.data)
    IN [i \in 1..Len(tds) |-> get_text_strip(tds[i])]

_extract_table_data(table) ==
    IF table.tbody = None THEN AttributeError
    ELSE LET trs == table.tbody[1]
         IN Return([i \in 1..Len(trs) |-> row_of(trs[i])])

\* a variant of the message that names the database only
table_error_message_without_table(database, table) ==
    MSG_TABLE_PREFIX \o database \o MSG_TABLE_SUFFIX

\* the message of the TableDataError of get_table_data
table_error_message(database, table) ==
    MSG_TABLE_PREFIX \o database \o DOT \o table \o MSG_TABLE_SUFFIX

\* get_table_data, after the response passed raise_for_status
parse_table_page(database, table, soup) ==
    LET result_table == soup.table
    IN IF result_table = None
       THEN TableDataError(table_error_message(database, table))
       ELSE LET headers == _extract_headers(result_table[1])
                table_data == _extract_table_data(result_table[1])
            IN IF headers.kind # "return" THEN headers
               ELSE IF table_data.kind # "return" THEN table_data
               ELSE Return(<<headers.value[1], table_data.value[1]>>)

\* params of get_table_data
table_params(database, table) ==
    [route |-> ROUTE_SQL, db |-> database, table |-> table, pos |-> 0]

\* a variant of get_table_data that refuses to run before a successful
\* authenticate()
get_table_data_after_login_only(self, database, table, answer) ==
    LET request == Request("GET", self.base_url \o INDEX_PHP, None,
                           Some(table_params(database, table)))
    IN IF logins # "ok"
       THEN Ran(<<>>, <<>>, Raise("NotAuthenticatedError", <<>>, None))
       ELSE IF ~answer.ok
       THEN Ran(<<request>>, <<answer>>, except_RequestException(answer.exc))
       ELSE IF raise_for_status(answer) # None
       THEN Ran(<<request>>, <<answer>>,
                except_RequestException(raise_for_status(answer)[1]))
       ELSE Ran(<<request>>, <<answer>>,
                parse_table_page(database, table, answer.body))

\* get_table_data: answer is what the server gives to the GET
get_table_data(self, database, table, answer) ==
    LET request == Request("GET", self.base_url \o INDEX_PHP, None,
                           Some(table_params(database, table)))
    IN IF ~answer.ok
       THEN Ran(<<request>>, <<answer>>, except_RequestException(answer.exc))
       ELSE IF raise_for_status(answer) # None
       THEN Ran(<<request>>, <<answer>>,
                except_RequestException(raise_for_status(answer)[1]))
       ELSE Ran(<<request>>, <<answer>>,
                parse_table_page(database, table, answer.body))

\* what print() writes: a line of text, or the grid tabulate renders
PrintedLine(text) ==
    [print |-> "line", text |-> text, table_data |-> <<>>, headers |-> <<>>,
     tablefmt |-> "", stralign |-> "", showindex |-> FALSE]

\* display_table: the tabulate(...) call whose text is printed
display_table(headers, table_data) ==
    [print |-> "tabulate", text |-> <<>>, table_data |-> table_data,
     headers |-> headers, tablefmt |-> "grid", stralign |-> "left",
     showindex |-> TRUE]

(***************************************************************************)
(* The server: the answers it may give.                                    *)
(***************************************************************************)
Statuses == {200, 300, 404, 503}

\* reason phrases
OK_REASON == <<"O","K">>
MULTIPLE_CHOICES == <<"M","u","l","t","i","p","l","e"," ","C","h","o","i","c","e","s">>
NOT_FOUND == <<"N","o","t"," ","F","o","u","n","d">>
UNAVAILABLE == <<"U","n","a","v","a","i","l","a","b","l","e">>
ReasonOf(status) ==
    CASE status = 200 -> OK_REASON
      [] status = 300 -> MULTIPLE_CHOICES
      [] status = 404 -> NOT_FOUND
      [] OTHER -> UNAVAILABLE

\* transport failures: both are requests.exceptions.RequestException
TransportFailures ==
    {Failure("Timeout", <<"t","i","m","e","d"," ","o","u","t">>),
     Failure("requests.ConnectionError", <<"r","e","f","u","s","e","d">>)}

Answers(pages) ==
    TransportFailures \cup
    {Response(s, ReasonOf(s), page) : s \in Statuses, page \in pages}

\* what self.session.get(url) / post(url) may give, the server holding pages
Served(url, pages) ==
    IF no_scheme(url) \/ no_host(url) THEN {invalid_url(url)} ELSE Answers(pages)

\* <input> elements of a login page
ABC123 == <<"a","b","c","1","2","3">>
T2 == <<"t","2">>
Inputs ==
    {[name |-> "token", value |-> Some(ABC123)],
     [name |-> "token", value |-> Some(T2)],
     [name |-> "token", value |-> None],
     [name |-> "pma_username", value |-> Some(<<>>)]}

\* the login page: it holds the login form
LoginPages ==
    {[login_form |-> TRUE, inputs |-> inputs, table |-> None] :
        inputs \in SeqsUpTo(Inputs, MaxInputs)}

\* the page after a login POST: the login form again, or the main page
PostPages ==
    {[login_form |-> TRUE, inputs |-> <<[name |-> "token", value |-> Some(T2)]>>,
      table |-> None],
     [login_form |-> FALSE, inputs |-> <<>>, table |-> None]}

\* <th> elements
ID == <<"i","d">>
NAME == <<"n","a","m","e">>
Ths ==
    {[column_heading |-> TRUE, data_column |-> Some(ID)],
     [column_heading |-> TRUE, data_column |-> Some(NAME)],
     [column_heading |-> TRUE, data_column |-> None],
     [column_heading |-> FALSE, data_column |-> Some(ID)]}

\* <td> elements, each with the strings inside it
Tds ==
    {[data |-> TRUE, strings |-> <<<<" ","1","\n">>>>],
     [data |-> TRUE, strings |-> <<<<"a"," ">>, <<" ">>, <<" ","b">>>>],
     [data |-> FALSE, strings |-> <<<<"x">>>>]}

Theads == {None} \cup {Some(ths) : ths \in SeqsUpTo(Ths, MaxCols)}
Tbodies ==
    {None} \cup {Some(trs) : trs \in SeqsUpTo(SeqsUpTo(Tds, MaxCells), MaxRows)}

ResultsPage(thead, tbody) ==
    [login_form |-> FALSE, inputs |-> <<>>,
     table |-> Some([thead |-> thead, tbody |-> tbody])]

ALICE_ROW ==
    <<[data |-> TRUE, strings |-> <<<<" ","1","\n">>>>],
      [data |-> TRUE, strings |-> <<<<"a"," ">>, <<" ">>, <<" ","b">>>>]>>
ID_NAME ==
    <<[column_heading |-> TRUE, data_column |-> Some(ID)],
      [column_heading |-> TRUE, data_column |-> Some(NAME)]>>

\* results pages: every thead with one tbody, and every tbody with one thead
TablePages ==
    {ResultsPage(thead, Some(<<ALICE_ROW>>)) : thead \in Theads} \cup
    {ResultsPage(Some(ID_NAME), tbody) : tbody \in Tbodies}

\* a few login pages: no token input, one without a value, one with a value
\* after another input, two token inputs
FewLoginPages ==
    {[login_form |-> TRUE, inputs |-> inputs, table |-> None] :
        inputs \in {<<>>,
                    <<[name |-> "token", value |-> None]>>,
                    <<[name |-> "pma_username", value |-> Some(<<>>)],
                      [name |-> "token", value |-> Some(ABC123)]>>,
                    <<[name |-> "token", value |-> Some(ABC123)],
                      [name |-> "token", value |-> None]>>}}

\* a few pages for the table GET: the login page (not logged in), a page
\* without results, and results with and without thead and tbody
FewPages ==
    {[login_form |-> TRUE, inputs |-> <<[name |-> "token", value |-> Some(T2)]>>,
      table |-> None],
     [login_form |-> FALSE, inputs |-> <<>>, table |-> None],
     ResultsPage(Some(ID_NAME), Some(<<ALICE_ROW>>)),
     ResultsPage(None, Some(<<ALICE_ROW>>)),
     ResultsPage(Some(ID_NAME), None)}

\* arguments the caller may give
\* "http://h"
HTTP_H == HTTP \o <<"h">>
BaseUrls ==
    SeqsUpTo({"/", "a"}, MaxUrlLen) \cup
    {HTTP_H \o path : path \in SeqsUpTo({"/", "a"}, MaxUrlLen)}
Usernames == {<<"u">>}
Passwords == {<<"p">>}
Names == {<<"7">>, <<"4","2">>}

(***************************************************************************)
(* The state after an operation of the client.                             *)
(***************************************************************************)
NoResult == [op |-> "", kind |-> "", value |-> None, message |-> <<>>, cause |-> None]
Result(op, outcome) ==
    [op |-> op, kind |-> outcome.kind, value |-> outcome.value,
     message |-> outcome.message, cause |-> outcome.cause]

\* self.session.get / self.session.post were called: ran is what the call did
Requested(op, ran) ==
    /\ requests' = ran.requests
    /\ served' = ran.served
    /\ result' = Result(op, ran.outcome)
    /\ late' = (late \/ session = "closed")

\* the answers to the POST of authenticate: none is needed when the GET's
\* answer ends the call before the POST
PostAnswers(self, get_answer) ==
    LET ran == authenticate(self, get_answer, Response(200, OK_REASON, NoPage))
    IN IF Len(ran.requests) = 2
       THEN Served(ran.requests[2].url, PostPages)
       ELSE {Response(200, OK_REASON, NoPage)}

\* client.authenticate()
call_authenticate(get_answer, post_answer) ==
    LET ran == authenticate(client[1], get_answer, post_answer)
    IN /\ Requested("authenticate", ran)
       /\ logins' = IF ran.outcome.kind = "return" THEN "ok" ELSE "failed"
       /\ posted' = posted \cup {r.data[1].token : r \in
                                    {q \in Range(ran.requests) : q.method = "POST"}}
       /\ args' = <<>>
       /\ UNCHANGED <<client, given, session, closes, stdout>>

\* client.get_table_data(database, table)
call_get_table_data(database, table, answer) ==
    /\ Requested("get_table_data", get_table_data(client[1], database, table, answer))
    /\ args' = <<database, table>>
    /\ UNCHANGED <<client, given, session, closes, stdout, logins, posted>>

\* PhpMyAdminClient.display_table(headers, table_data)
call_display_table(headers, table_data) ==
    /\ stdout' = Append(stdout, display_table(headers, table_data))
    /\ result' = Result("display_table", Return(None))
    /\ requests' = <<>>
    /\ served' = <<>>
    /\ args' = <<headers, table_data>>
    /\ UNCHANGED <<client, given, session, closes, logins, late, posted>>

\* client.close()
call_close ==
    /\ session' = "closed"
    /\ closes' = closes + 1
    /\ result' = Result("close", Return(None))
    /\ requests' = <<>>
    /\ served' = <<>>
    /\ args' = <<>>
    /\ UNCHANGED <<client, given, stdout, logins, late, posted>>

\* PhpMyAdminClient(base_url, username, password)
construct(base_url, username, password) ==
    /\ client' = Some(PhpMyAdminClient(base_url, username, password))
    /\ session' = "open"
    /\ result' = Result("__init__", Return(None))
    /\ given' = <<base_url, username, password>>
    /\ args' = <<base_url, username, password>>
    /\ UNCHANGED <<closes, requests, served, stdout, logins, late, posted>>

Blank ==
    /\ client = None
    /\ given = <<>>
    /\ args = <<>>
    /\ session = "none"
    /\ closes = 0
    /\ requests = <<>>
    /\ served = <<>>
    /\ result = NoResult
    /\ stdout = <<>>
    /\ trace = <<>>
    /\ logins = "never"
    /\ late = FALSE
    /\ posted = {}

(***************************************************************************)
(* Spec: a caller that constructs one client and calls its methods in any  *)
(* order, against a server that may answer anything.                       *)
(***************************************************************************)
Init == Blank /\ pc = "api"

New ==
    /\ pc = "api" /\ client = None
    /\ \E base_url \in BaseUrls, username \in Usernames, password \in Passwords :
          construct(base_url, username, password)
    /\ UNCHANGED <<pc, trace>>

Authenticate ==
    /\ pc = "api" /\ client # None /\ session = "open"
    /\ \E get_answer \in Served(client[1].base_url, FewLoginPages) :
          \E post_answer \in PostAnswers(client[1], get_answer) :
             call_authenticate(get_answer, post_answer)
    /\ UNCHANGED <<pc, trace>>

GetTableData ==
    /\ pc = "api" /\ client # None /\ session = "open"
    /\ \E database \in Names, table \in Names,
          answer \in Served(client[1].base_url \o INDEX_PHP, FewPages) :
          call_get_table_data(database, table, answer)
    /\ UNCHANGED <<pc, trace>>

\* display_table, once, with what get_table_data returned last
DisplayTable ==
    /\ pc = "api" /\ client # None /\ session = "open"
    /\ stdout = <<>>
    /\ result.op = "get_table_data" /\ result.kind = "return"
    /\ call_display_table(result.value[1][1], result.value[1][2])
    /\ UNCHANGED <<pc, trace>>

Close ==
    /\ pc = "api" /\ client # None /\ session = "open"
    /\ call_close
    /\ UNCHANGED <<pc, trace>>

Next == New \/ Authenticate \/ GetTableData \/ DisplayTable \/ Close

Spec == Init /\ [][Next]_vars

(***************************************************************************)
(* AuthSpec: authenticate, any number of times, on the client of the       *)
(* __main__ script, against every login page within the bounds.            *)
(***************************************************************************)
AuthInit == Blank /\ pc = "auth"

AuthNew ==
    /\ pc = "auth" /\ client = None
    /\ construct(phpmyadmin_url, main_username, main_password)
    /\ UNCHANGED <<pc, trace>>

AuthCall ==
    /\ pc = "auth" /\ client # None
    /\ \E get_answer \in Served(client[1].base_url, LoginPages) :
          \E post_answer \in PostAnswers(client[1], get_answer) :
             call_authenticate(get_answer, post_answer)
    /\ UNCHANGED <<pc, trace>>

AuthNext == AuthNew \/ AuthCall

AuthSpec == AuthInit /\ [][AuthNext]_vars

(***************************************************************************)
(* TableSpec: get_table_data on the client of the __main__ script, against *)
(* every results page within the bounds.                                   *)
(***************************************************************************)
TableInit ==
    /\ Blank
    /\ pc = "table"

TableNew ==
    /\ pc = "table" /\ client = None
    /\ construct(phpmyadmin_url, main_username, main_password)
    /\ UNCHANGED <<pc, trace>>

\* one call
TableGet ==
    /\ pc = "table" /\ client # None /\ requests = <<>>
    /\ \E answer \in Served(client[1].base_url \o INDEX_PHP, TablePages) :
          call_get_table_data(main_database, main_table, answer)
    /\ UNCHANGED <<pc, trace>>

TableNext == TableNew \/ TableGet

TableSpec == TableInit /\ [][TableNext]_vars

(***************************************************************************)
(* MainSpec: the script under `if __name__ == "__main__"`.                 *)
(***************************************************************************)
\* a variant of the except clause: except Exception as e
CaughtException ==
    {"AuthenticationError", "TableDataError", "ConnectionError", "AttributeError"}

\* except (AuthenticationError, TableDataError, ConnectionError) as e
Caught == {"AuthenticationError", "TableDataError", "ConnectionError"}

\* where control goes after a statement of the try block that ended with kind
after_try(kind, next) ==
    IF kind = "return" THEN next
    ELSE IF kind \in Caught THEN "except"
    ELSE "unwinding"

MainInit == Blank /\ pc = "start"

\* client = PhpMyAdminClient(phpmyadmin_url, username, password)
main_construct ==
    /\ pc = "start"
    /\ construct(phpmyadmin_url, main_username, main_password)
    /\ pc' = "authenticate"
    /\ trace' = Append(trace, "__init__")

\* client.authenticate()
main_authenticate ==
    /\ pc = "authenticate"
    /\ \E get_answer \in Served(client[1].base_url, FewLoginPages) :
          \E post_answer \in PostAnswers(client[1], get_answer) :
             call_authenticate(get_answer, post_answer)
    /\ pc' = after_try(result'.kind, "get_table_data")
    /\ trace' = Append(trace, "authenticate")

\* headers, table_data = client.get_table_data(database, table)
main_get_table_data ==
    /\ pc = "get_table_data"
    /\ \E answer \in Served(client[1].base_url \o INDEX_PHP, FewPages) :
          call_get_table_data(main_database, main_table, answer)
    /\ pc' = after_try(result'.kind, "display_table")
    /\ trace' = Append(trace, "get_table_data")

\* PhpMyAdminClient.display_table(headers, table_data)
main_display_table ==
    /\ pc = "display_table"
    /\ call_display_table(result.value[1][1], result.value[1][2])
    /\ pc' = "finally"
    /\ trace' = Append(trace, "display_table")

\* print(f"Error: {e}")
main_except ==
    /\ pc = "except"
    /\ stdout' = Append(stdout, PrintedLine(MSG_ERROR \o result.message))
    /\ pc' = "finally"
    /\ trace' = Append(trace, "except")
    /\ UNCHANGED <<client, given, args, session, closes, requests, served, result,
                   logins, late, posted>>

\* a variant of the script with client.close() after the try statement
\* instead of in its finally clause
main_close_after_try ==
    /\ pc \in {"finally", "unwinding"}
    /\ IF client # None /\ pc = "finally"
       THEN /\ session' = "closed"
            /\ closes' = closes + 1
       ELSE UNCHANGED <<session, closes>>
    /\ pc' = IF pc = "finally" THEN "exit" ELSE "traceback"
    /\ trace' = Append(trace, "finally")
    /\ UNCHANGED <<client, given, args, requests, served, result, stdout, logins,
                   late, posted>>

\* finally: if client: client.close()
\* reached normally (pc = "finally") or with an exception in flight
main_finally ==
    /\ pc \in {"finally", "unwinding"}
    /\ IF client # None
       THEN /\ session' = "closed"
            /\ closes' = closes + 1
       ELSE UNCHANGED <<session, closes>>
    /\ pc' = IF pc = "finally" THEN "exit" ELSE "traceback"
    /\ trace' = Append(trace, "finally")
    /\ UNCHANGED <<client, given, args, requests, served, result, stdout, logins,
                   late, posted>>

MainNext ==
    \/ main_construct
    \/ main_authenticate
    \/ main_get_table_data
    \/ main_display_table
    \/ main_except
    \/ main_finally

MainSpec == MainInit /\ [][MainNext]_vars

\* every statement of the script ends (each request has a timeout), so the
\* script always takes its next step
MainFair == MainSpec /\ WF_vars(MainNext)

(***************************************************************************)
(* Properties.  What a property expects is written here from the claim,    *)
(* not with the operators that model the client.                           *)
(***************************************************************************)
LastWas(op) == result.op = op

\* the answer arrived and carries a status in a..b
StatusIn(answer, a, b) == answer.ok /\ a <= answer.status /\ answer.status <= b

\* the request raised nothing: the answer arrived and its status is no error status
Passed(answer) == StatusIn(answer, 0, 399)

\* positions of the inputs named 'token' on a page
TokenAt(page) == {i \in 1..Len(page.inputs) : page.inputs[i].name = "token"}
FirstTokenAt(page) == CHOOSE i \in TokenAt(page) : \A j \in TokenAt(page) : i <= j

\* the page has no input named 'token', or that input has no value attribute
TokenMissing(page) ==
    TokenAt(page) = {} \/ page.inputs[FirstTokenAt(page)].value = None

\* the value scraped from a page that has one
ScrapedToken(page) == page.inputs[FirstTokenAt(page)].value[1]

Posts == {i \in 1..Len(requests) : requests[i].method = "POST"}

\* C1: when the login page the GET returned has no input named 'token', or
\* that input has no value attribute, authenticate() fails with
\* AuthenticationError and issues no POST; a POST is issued only after a GET
\* that succeeded and a token extraction that succeeded.
C1_NoTokenNoPost ==
    LastWas("authenticate") =>
       /\ (Passed(served[1]) /\ TokenMissing(served[1].body)) =>
             /\ result.kind = "AuthenticationError"
             /\ result.message = MSG_NO_TOKEN
             /\ Posts = {}
       /\ Posts # {} =>
             /\ Posts = {2}
             /\ requests[1].method = "GET"
             /\ Passed(served[1])
             /\ ~TokenMissing(served[1].body)

\* a login page whose token input has no value attribute ended the call
\* before the POST
C1_Witness ==
    /\ LastWas("authenticate")
    /\ Passed(served[1])
    /\ TokenAt(served[1].body) # {}
    /\ TokenMissing(served[1].body)
    /\ result.kind = "AuthenticationError"
    /\ Len(requests) = 1

\* C2: every login POST goes to <base_url>index.php and carries exactly
\* pma_username = the stored username, pma_password = the stored password,
\* server = '1' and token = the value scraped from the login page the GET of
\* the same call fetched; a call issues at most one POST, and the client
\* keeps no token between calls.
C2_PostPayload ==
    /\ client # None => DOMAIN client[1] = {"base_url", "username", "password"}
    /\ LastWas("authenticate") =>
          /\ Cardinality(Posts) <= 1
          /\ \A i \in Posts :
                /\ requests[i].url = client[1].base_url \o INDEX_PHP
                /\ requests[i].params = None
                /\ requests[i].data =
                      Some([pma_username |-> client[1].username,
                            pma_password |-> client[1].password,
                            server |-> <<"1">>,
                            token |-> ScrapedToken(served[1].body)])

\* a call POSTed the token t2 of its own login page after an earlier call
\* had POSTed abc123
C2_Witness ==
    /\ LastWas("authenticate")
    /\ Posts = {2}
    /\ requests[2].data[1].token = T2
    /\ posted = {ABC123, T2}

\* what C3 says of the outcome of authenticate(), for a POST status in a..b
C3_Outcome(a, b) ==
    LastWas("authenticate") =>
       /\ result.kind = "return" <=>
             /\ Passed(served[1])
             /\ ~TokenMissing(served[1].body)
             /\ Len(served) = 2
             /\ StatusIn(served[2], a, b)
             /\ ~served[2].body.login_form
       /\ (Len(served) = 2 /\ StatusIn(served[2], a, b) /\ served[2].body.login_form)
             => result.kind = "AuthenticationError" /\ result.message = MSG_LOGIN_FAILED
       /\ result.kind = "return" => result.value = Some(TRUE)
       /\ result.value # Some(FALSE)

\* C3 as stated: authenticate() returns True if and only if the GET
\* succeeded, a token was found, the POST succeeded with a 2xx status and its
\* body lacks the marker name="login_form"; a 2xx POST response with the
\* marker is an AuthenticationError; it never returns False.
C3_Original == C3_Outcome(200, 299)

\* C3, amended: the same with "a status below 400" (any status
\* raise_for_status accepts) in place of "a 2xx status".
C3_ReturnsTrueIff == C3_Outcome(0, 399)

\* authenticate() returned True on a POST response whose status is not 2xx
C3_Witness ==
    /\ LastWas("authenticate")
    /\ result.kind = "return"
    /\ result.value = Some(TRUE)
    /\ served[2].status = 300

\* what C4 says, with Bad the answers that count as a failure
C4_Outcome(Bad(_)) ==
    (LastWas("authenticate") \/ LastWas("get_table_data")) =>
       /\ result.kind \in {"return", "AuthenticationError", "TableDataError",
                           "ConnectionError", "AttributeError"}
       /\ (\E i \in 1..Len(served) : Bad(served[i])) =>
             /\ result.kind = "ConnectionError"
             /\ result.cause # None
             /\ result.cause[1].type \in RequestException
             /\ result.message = MSG_CONNECTION \o result.cause[1].text

\* a transport failure, or a status that is not 2xx
C4_NotSuccess(answer) == ~answer.ok \/ ~StatusIn(answer, 200, 299)

\* a transport failure, or a 4xx or 5xx status
C4_Error(answer) == ~answer.ok \/ StatusIn(answer, 400, 599)

\* C4 as stated: a transport failure or a non-2xx status on the login GET,
\* the login POST or the table GET surfaces as ConnectionError, never as a
\* raw transport exception, whatever the body holds.
C4_Original == C4_Outcome(C4_NotSuccess)

\* C4, amended: the same with "a 4xx or 5xx status" in place of "a non-2xx
\* status"; the status check precedes the inspection of the body.
C4_ConnectionError == C4_Outcome(C4_Error)

\* a 404 answer to the POST whose body holds the login form ended
\* authenticate() with ConnectionError
C4_Witness ==
    /\ LastWas("authenticate")
    /\ Len(served) = 2
    /\ served[2].status = 404
    /\ served[2].body.login_form
    /\ result.kind = "ConnectionError"
    /\ result.cause[1].type = "HTTPError"

\* C5: when the 2xx response to get_table_data(database, table) holds no
\* table of class 'table_results', the call fails with TableDataError, the
\* message contains the requested database name and the requested table
\* name, and no (headers, rows) is returned.
C5_TableDataError ==
    (LastWas("get_table_data") /\ StatusIn(served[1], 200, 299)
        /\ served[1].body.table = None) =>
       /\ result.kind = "TableDataError"
       /\ Contains(result.message, args[1])
       /\ Contains(result.message, args[2])
       /\ result.value = None

\* a 2xx page without results, asked for database 42 and table 7
C5_Witness ==
    /\ LastWas("get_table_data")
    /\ StatusIn(served[1], 200, 299)
    /\ served[1].body.table = None
    /\ args = <<(<<"4","2">>), (<<"7">>)>>
    /\ result.kind = "TableDataError"

\* s without its leading and trailing whitespace
Trim(s) ==
    LET inked == {i \in 1..Len(s) : s[i] \notin {" ", "\t", "\n"}}
        first == CHOOSE i \in inked : \A j \in inked : i <= j
        last == CHOOSE i \in inked : \A j \in inked : j <= i
    IN IF inked = {} THEN <<>> ELSE SubSeq(s, first, last)

\* the strings one after the other
RECURSIVE Text(_)
Text(strings) ==
    IF strings = <<>> THEN <<>> ELSE Head(strings) \o Text(Tail(strings))

\* the headers C6 expects of thead's cells
RECURSIVE C6_Headers(_)
C6_Headers(ths) ==
    IF ths = <<>> THEN <<>>
    ELSE LET th == Head(ths)
             name == IF th.data_column = None THEN <<"N","/","A">>
                     ELSE th.data_column[1]
         IN (IF th.column_heading THEN <<name>> ELSE <<>>) \o C6_Headers(Tail(ths))

\* the row C6 expects of a tr, given the text it expects of a cell
C6_Row(tr, Cell(_)) ==
    LET cells == SelectSeq(tr, LAMBDA td : td.data)
    IN [i \in 1..Len(cells) |-> Cell(cells[i])]

\* what C6 says get_table_data returns, given the text it expects of a cell
C6_Outcome(Cell(_)) ==
    LET table == served[1].body.table[1]
    IN LastWas("get_table_data") =>
          /\ (Passed(served[1]) /\ served[1].body.table # None
                /\ table.thead # None /\ table.tbody # None) =>
                /\ result.kind = "return"
                /\ result.value[1][1] = C6_Headers(table.thead[1])
                /\ Len(result.value[1][2]) = Len(table.tbody[1])
                /\ \A i \in 1..Len(table.tbody[1]) :
                      result.value[1][2][i] = C6_Row(table.tbody[1][i], Cell)
          /\ result.kind = "return" =>
                /\ Passed(served[1]) /\ served[1].body.table # None
                /\ table.thead # None /\ table.tbody # None

\* the whitespace-trimmed text of a cell
C6_TrimmedText(td) == Trim(Text(td.strings))

\* the strings of a cell, each trimmed, one after the other
C6_TrimmedStrings(td) == Text([i \in 1..Len(td.strings) |-> Trim(td.strings[i])])

\* C6 as stated: with the results table present, get_table_data returns the
\* data-column of each column_heading cell of thead in page order ('N/A'
\* without the attribute) and one row per tr of tbody in page order, each
\* row the whitespace-trimmed text of the tr's cells of class 'data' in
\* order; nothing is reordered, dropped or checked against the header count.
C6_Original == C6_Outcome(C6_TrimmedText)

\* C6, amended: the same, with each cell's text being the strings inside
\* the cell, each trimmed of whitespace, joined with nothing between them.
C6_HeadersAndRows == C6_Outcome(C6_TrimmedStrings)

\* a header without data-column came back as N/A, over a two-cell row whose
\* second cell holds the strings "a ", " " and " b"
C6_Witness ==
    /\ LastWas("get_table_data")
    /\ result.kind = "return"
    /\ result.value[1][1] = << <<"N","/","A">> >>
    /\ result.value[1][2] = << << <<"1">>, <<"a","b">> >> >>
    /\ Len(served[1].body.table[1].tbody[1][1][2].strings) = 3

\* the script is over: it ended normally, or an exception left it
Over == pc \in {"exit", "traceback"}

\* C7: once the script has constructed the client, close() is eventually
\* called, and exactly once, on every path out of the script: after the
\* table was displayed, after a caught error, and when an uncaught fault
\* propagates; no request is issued after the close.
C7_ClosedOnce ==
    /\ [](closes <= 1 /\ ~late)
    /\ []((Over /\ client # None) => (closes = 1 /\ session = "closed"))
    /\ [][session = "closed" => UNCHANGED <<session, requests, served>>]_vars
    /\ ((client # None) ~> (Over /\ closes = 1))

\* an uncaught fault left the script, and the session was closed once
C7_Witness ==
    /\ pc = "traceback"
    /\ result.kind = "AttributeError"
    /\ closes = 1
    /\ session = "closed"

\* the client's methods among the steps taken
Steps ==
    SelectSeq(trace, LAMBDA s : s \in {"authenticate", "get_table_data", "display_table"})

IsPrefix(s, t) == Len(s) <= Len(t) /\ SubSeq(t, 1, Len(s)) = s

\* C8: the script runs authenticate, get_table_data, display_table in that
\* order and the first failure stops the rest; an AuthenticationError,
\* TableDataError or ConnectionError gives exactly one printed line
\* 'Error: <message>', no table, and a normal end; any other fault is not
\* caught, prints nothing and propagates out of the script.
C8_FirstFailureStops ==
    /\ IsPrefix(Steps, <<"authenticate", "get_table_data", "display_table">>)
    /\ pc = "get_table_data" => LastWas("authenticate") /\ result.kind = "return"
    /\ pc = "display_table" => LastWas("get_table_data") /\ result.kind = "return"
    /\ (result.kind \notin {"", "return"}) =>
          /\ result.op = Steps[Len(Steps)]
          /\ \A i \in 1..Len(stdout) : stdout[i].print # "tabulate"
    /\ result.kind \in {"AuthenticationError", "TableDataError", "ConnectionError"} =>
          /\ pc \in {"except", "finally", "exit"}
          /\ pc = "except" => stdout = <<>>
          /\ pc \in {"finally", "exit"} =>
                /\ Len(stdout) = 1
                /\ stdout[1].print = "line"
                /\ stdout[1].text =
                      <<"E","r","r","o","r",":"," ">> \o result.message
    /\ (result.kind \notin {"", "return", "AuthenticationError", "TableDataError",
                             "ConnectionError"}) =>
          /\ pc \in {"unwinding", "traceback"}
          /\ stdout = <<>>
    /\ pc = "traceback" =>
          result.kind \notin {"return", "AuthenticationError", "TableDataError",
                              "ConnectionError"}
    /\ (pc = "exit" /\ result.kind = "return") =>
          /\ Steps = <<"authenticate", "get_table_data", "display_table">>
          /\ Len(stdout) = 1
          /\ stdout[1].print = "tabulate"

\* a results table without thead: the fault left the script and no
\* 'Error:' line was printed
C8_Witness ==
    /\ pc = "traceback"
    /\ LastWas("get_table_data")
    /\ served[1].body.table # None
    /\ served[1].body.table[1].thead = None
    /\ result.kind = "AttributeError"
    /\ stdout = <<>>
    /\ Steps = <<"authenticate", "get_table_data">>

\* how C9 expects get_table_data to end, from the answer alone
C9_Kind(answer) ==
    IF ~Passed(answer) THEN "ConnectionError"
    ELSE IF answer.body.table = None THEN "TableDataError"
    ELSE IF answer.body.table[1].thead = None \/ answer.body.table[1].tbody = None
    THEN "AttributeError"
    ELSE "return"

\* C9: get_table_data has no precondition on authentication: never
\* authenticated, after a failed authenticate() or after a successful one,
\* it issues the table GET and ends as the answer alone decides; called
\* unauthenticated with a page without results it fails with TableDataError,
\* and no 'not logged in' kind of error exists.
C9_NoLoginPrecondition ==
    /\ (pc = "api" /\ client # None /\ session = "open") => ENABLED GetTableData
    /\ LastWas("get_table_data") =>
          /\ Len(requests) = 1
          /\ requests[1].method = "GET"
          /\ requests[1].params =
                Some([route |-> <<"/","s","q","l">>, db |-> args[1],
                      table |-> args[2], pos |-> 0])
          /\ result.kind = C9_Kind(served[1])
          /\ (logins # "ok" /\ Passed(served[1]) /\ served[1].body.table = None)
                => result.kind = "TableDataError"

\* after a failed authenticate() the table GET was issued, the server
\* answered with its login page, and the call ended with TableDataError
C9_Witness ==
    /\ logins = "failed"
    /\ LastWas("get_table_data")
    /\ Len(requests) = 1
    /\ Passed(served[1])
    /\ served[1].body.login_form
    /\ result.kind = "TableDataError"

\* what C10 says of the stored fields
C10_Fields ==
    client # None =>
       /\ client[1].base_url \in {given[1], given[1] \o <<"/">>}
       /\ client[1].base_url # <<>>
       /\ client[1].base_url[Len(client[1].base_url)] = "/"
       /\ client[1].username = given[2]
       /\ client[1].password = given[3]

\* C10 as stated: the stored base_url is the constructor's text plus at most
\* one appended '/', always ends with '/', and base_url, username and
\* password are left as constructed by every operation; every POST and GET
\* goes to <base_url>index.php.
C10_Original ==
    /\ C10_Fields
    /\ \A i \in 1..Len(requests) :
          requests[i].url = client[1].base_url \o <<"i","n","d","e","x",".","p","h","p">>

\* C10, amended: the same, with the login POST and the table GET going to
\* <base_url>index.php and the login GET going to base_url itself.
C10_BaseUrl ==
    /\ C10_Fields
    /\ \A i \in 1..Len(requests) :
          requests[i].url =
             IF requests[i].method = "GET" /\ requests[i].params = None
             THEN client[1].base_url
             ELSE client[1].base_url \o <<"i","n","d","e","x",".","p","h","p">>

\* constructed with "http://h": base_url is "http://h/", and authenticate()
\* has sent its GET there and its POST to "http://h/index.php"
C10_Witness ==
    /\ client # None
    /\ given[1] = <<"h","t","t","p",":","/","/","h">>
    /\ client[1].base_url = <<"h","t","t","p",":","/","/","h","/">>
    /\ LastWas("authenticate")
    /\ Len(requests) = 2
    /\ requests[1].url = <<"h","t","t","p",":","/","/","h","/">>
    /\ requests[2].url =
          <<"h","t","t","p",":","/","/","h","/","i","n","d","e","x",".","p","h","p">>
=============================================================================
